---- MODULE Spec2Model ----
(***************************************************************************)
(* Model of ont_n50.py: N50 and summary statistics of FASTQ read lengths.  *)
(*                                                                         *)
(* Python integers are unbounded and Python's "/" on two integers is the   *)
(* correctly rounded IEEE-754 binary64 quotient.  Both are modelled as     *)
(* they compute:                                                           *)
(*   - an integer is a pair <<hi, lo>> of naturals standing for            *)
(*     hi * 2^LimbBits + lo (within the bounds of the model lo stays far   *)
(*     below 2^LimbBits, so addition never carries);                       *)
(*   - a float is a record [sig, exp]: sig is the MantBits-bit significand *)
(*     (most significant bit first, leading bit 1) read as an integer and  *)
(*     the value is sig * 2^exp; the float 0.0 has sig = <<>>.             *)
(***************************************************************************)
EXTENDS Integers, Sequences, FiniteSets, TLC

LimbBits  == 51      \* bits of the low part of an integer
MantBits  == 53      \* bits of the significand of a float
ChunkBits == 20      \* bits handled at a time by the digit-wise arithmetic

\* ------------------------------------------------------------------ bounds
MaxN50Reads == 3      \* reads of a series handed to calculate_n50 alone
MaxReads    == 7      \* reads of a series handed to the aggregator alone
MaxFiles    == 3      \* entries of a directory listing
MaxRecs     == 2      \* records of one file in a whole run
MaxNameLen  == 6      \* characters of a file name

VARIABLES
    pc,                \* position of the program
    args,              \* parsed command line: file, directory
    walk,              \* what os.walk yields: <<root, file>> pairs, in order
    files_to_process,  \* main: candidate paths
    idx,               \* main: position of the for loop in files_to_process
    handles,           \* streams currently open: [file, mode]
    read_lengths,      \* process_fastq: lengths read so far
    n50,               \* result of calculate_n50
    results,           \* main: the rows collected so far
    csv,               \* the output file: <<"absent">>, <<"old">> or what was written
    stdout,            \* the messages printed so far
    fate               \* history: what the environment did to each file

vars == <<pc, args, walk, files_to_process, idx, handles, read_lengths, n50,
          results, csv, stdout, fate>>

\* ------------------------------------------------------- Python integers
PyInt(n) == <<0, n>>

IntAdd(a, b) == <<a[1] + b[1], a[2] + b[2]>>

IntGeq(a, b) == a[1] > b[1] \/ (a[1] = b[1] /\ a[2] >= b[2])

Zeros(k) == [j \in 1..k |-> 0]

RECURSIVE NatBits(_)
NatBits(n) == IF n = 0 THEN <<>> ELSE Append(NatBits(n \div 2), n % 2)

\* binary digits of an integer, most significant first, no leading zero
IntBits(a) ==
    IF a[1] = 0 THEN NatBits(a[2])
    ELSE NatBits(a[1]) \o Zeros(LimbBits - Len(NatBits(a[2]))) \o NatBits(a[2])

\* --------------------------------------------------------- Python floats
FZero == [sig |-> <<>>, exp |-> 0]

\* significand + 1 (the significand is not all ones)
IncBits(b) ==
    LET k == CHOOSE j \in 1..Len(b) :
                 b[j] = 0 /\ \A m \in (j + 1)..Len(b) : b[m] = 1
    IN  [j \in 1..Len(b) |-> IF j < k THEN b[j] ELSE IF j = k THEN 1 ELSE 0]

\* round-to-nearest, ties-to-even, of X * 2^e (X a bit string with leading 1;
\* sticky: a non-zero part below the last bit of X was dropped)
RoundBits(X, e, sticky) ==
    LET L == Len(X) IN
    IF L <= MantBits
    THEN [sig |-> X \o Zeros(MantBits - L), exp |-> e - (MantBits - L)]
    ELSE LET sig0 == SubSeq(X, 1, MantBits)
             st   == sticky \/ \E j \in (MantBits + 2)..L : X[j] = 1
             e0   == e + (L - MantBits)
             up   == X[MantBits + 1] = 1 /\ (st \/ sig0[MantBits] = 1)
         IN  IF ~up THEN [sig |-> sig0, exp |-> e0]
             ELSE IF \A j \in 1..MantBits : sig0[j] = 1
                  THEN [sig |-> <<1>> \o Zeros(MantBits - 1), exp |-> e0 + 1]
                  ELSE [sig |-> IncBits(sig0), exp |-> e0]

\* the natural a bit string of at most ChunkBits bits stands for
RECURSIVE BitsToNat(_)
BitsToNat(B) ==
    IF B = <<>> THEN 0 ELSE 2 * BitsToNat(SubSeq(B, 1, Len(B) - 1)) + B[Len(B)]

\* the natural n as a bit string of exactly w bits
PadBits(n, w) == Zeros(w - Len(NatBits(n))) \o NatBits(n)

\* long division of the bit string N by the natural b, entered with the
\* remainder rem < b: quotient digits, one per digit of N, and the remainder
\* left; ChunkBits digits are brought down at a time
RECURSIVE DivBits(_, _, _)
DivBits(N, b, rem) ==
    IF N = <<>> THEN [q |-> <<>>, r |-> rem]
    ELSE LET w    == IF Len(N) < ChunkBits THEN Len(N) ELSE ChunkBits
             v    == rem * 2^w + BitsToNat(SubSeq(N, 1, w))
             rest == DivBits(SubSeq(N, w + 1, Len(N)), b, v % b)
         IN  [q |-> PadBits(v \div b, w) \o rest.q, r |-> rest.r]

\* a / b for a Python integer a and a small positive integer b
TrueDiv(a, b) ==
    LET N == IntBits(a)
        K == MantBits + 2 + Len(NatBits(b))
    IN  IF N = <<>> THEN FZero
        ELSE LET d == DivBits(N \o Zeros(K), b, 0)
                 p == CHOOSE j \in 1..Len(d.q) :
                          d.q[j] = 1 /\ \A m \in 1..(j - 1) : d.q[m] = 0
             IN  RoundBits(SubSeq(d.q, p, Len(d.q)), 0 - K, d.r # 0)

\* (the product of a float and an integer is not computed by the program; it
\* is needed to state what the program's quotient is)
\* bit string B (most significant first) times the natural b, plus carry,
\* ChunkBits digits at a time from the low end
RECURSIVE MulBits(_, _, _)
MulBits(B, b, carry) ==
    IF B = <<>> THEN NatBits(carry)
    ELSE LET w == IF Len(B) < ChunkBits THEN Len(B) ELSE ChunkBits
             v == BitsToNat(SubSeq(B, Len(B) - w + 1, Len(B))) * b + carry
         IN  MulBits(SubSeq(B, 1, Len(B) - w), b, v \div 2^w)
             \o PadBits(v % 2^w, w)

\* a bit string without its leading zeros
StripBits(B) ==
    IF \A j \in 1..Len(B) : B[j] = 0 THEN <<>>
    ELSE SubSeq(B, CHOOSE j \in 1..Len(B) :
                      B[j] = 1 /\ \A m \in 1..(j - 1) : B[m] = 0, Len(B))

TimesNat(B, b) == StripBits(MulBits(B, b, 0))

\* f * b for a float f and a small positive integer b
MulFloatInt(f, b) ==
    IF f.sig = <<>> THEN FZero
    ELSE RoundBits(TimesNat(f.sig, b), f.exp, FALSE)

\* three-way comparison of two bit strings whose leading bits have equal weight
CmpBits(A, B) ==
    LET W  == IF Len(A) > Len(B) THEN Len(A) ELSE Len(B)
        PA == A \o Zeros(W - Len(A))
        PB == B \o Zeros(W - Len(B))
    IN  IF PA = PB THEN 0
        ELSE LET k == CHOOSE j \in 1..W :
                          PA[j] # PB[j] /\ \A m \in 1..(j - 1) : PA[m] = PB[m]
             IN  IF PA[k] > PB[k] THEN 1 ELSE -1

\* exact comparison of a Python integer with a float: -1, 0 or 1
CmpIntFloat(c, f) ==
    LET C == IntBits(c) IN
    IF f.sig = <<>> THEN (IF C = <<>> THEN 0 ELSE 1)
    ELSE IF C = <<>> THEN -1
    ELSE IF Len(C) > f.exp + Len(f.sig) THEN 1
    ELSE IF Len(C) < f.exp + Len(f.sig) THEN -1
    ELSE CmpBits(C, f.sig)

\* ------------------------------------------------------------ calculate_n50
RECURSIVE InsertDesc(_, _)
InsertDesc(x, s) ==
    IF s = <<>> THEN <<x>>
    ELSE IF IntGeq(x, Head(s)) THEN <<x>> \o s
    ELSE <<Head(s)>> \o InsertDesc(x, Tail(s))

\* the series as read, not sorted
unsorted(s) == s

RECURSIVE sorted_desc(_)
sorted_desc(s) ==
    IF s = <<>> THEN <<>> ELSE InsertDesc(Head(s), sorted_desc(Tail(s)))

RECURSIVE sum(_)
sum(s) == IF s = <<>> THEN PyInt(0) ELSE IntAdd(Head(s), sum(Tail(s)))

RECURSIVE N50Walk(_, _, _, _)
N50Walk(sorted_lengths, half, k, current_sum) ==
    IF k > Len(sorted_lengths) THEN PyInt(0)
    ELSE LET s == IntAdd(current_sum, sorted_lengths[k])
         IN  IF CmpIntFloat(s, half) >= 0 THEN sorted_lengths[k]
             ELSE N50Walk(sorted_lengths, half, k + 1, s)

calculate_n50(lengths) ==
    IF lengths = <<>> THEN PyInt(0)
    ELSE LET sorted_lengths == sorted_desc(lengths)
             total_length   == sum(sorted_lengths)
         IN  N50Walk(sorted_lengths, TrueDiv(total_length, 2), 1, PyInt(0))

\* ------------------------------------------------------------------ strings
\* a string is the sequence of its characters
None == << "<None>" >>

Truthy(s) == s # None /\ s # <<>>

UpperCase == <<"A","B","C","D","E","F","G","H","I","J","K","L","M",
               "N","O","P","Q","R","S","T","U","V","W","X","Y","Z">>
LowerCase == <<"a","b","c","d","e","f","g","h","i","j","k","l","m",
               "n","o","p","q","r","s","t","u","v","w","x","y","z">>

lower(s) ==
    [i \in 1..Len(s) |->
        IF \E k \in 1..26 : UpperCase[k] = s[i]
        THEN LowerCase[CHOOSE k \in 1..26 : UpperCase[k] = s[i]]
        ELSE s[i]]

endswith(s, suffix) ==
    /\ Len(s) >= Len(suffix)
    /\ SubSeq(s, Len(s) - Len(suffix) + 1, Len(s)) = suffix

join(root, file) == root \o <<"/">> \o file

basename(path) ==
    LET k == IF \E i \in 1..Len(path) : path[i] = "/"
             THEN CHOOSE i \in 1..Len(path) :
                      path[i] = "/" /\ \A m \in (i + 1)..Len(path) : path[m] # "/"
             ELSE 0
    IN  SubSeq(path, k + 1, Len(path))

\* ------------------------------------------------------------ file locator
extensions == { <<".","f","a","s","t","q">>, <<".","f","q">>,
                <<".","f","a","s","t","q",".","g","z">>,
                <<".","f","q",".","g","z">> }

is_fastq_file(filename) == \E e \in extensions : endswith(lower(filename), e)

RECURSIVE get_fastq_files(_)
get_fastq_files(listing) ==
    IF listing = <<>> THEN <<>>
    ELSE LET root == Head(listing)[1]
             file == Head(listing)[2]
         IN  (IF is_fastq_file(file) THEN <<join(root, file)>> ELSE <<>>)
             \o get_fastq_files(Tail(listing))

\* --------------------------------------------------------------- streams
is_gzipped(filename) == endswith(filename, <<".","g","z">>)

open_stream(filename) ==
    [file |-> filename, mode |-> IF is_gzipped(filename) THEN "gzip" ELSE "text"]

\* a stream that stays open
with_leak(open, filename) == open

\* leaving a with block, normally or by an exception, closes the stream
with_exit(open, filename) == {h \in open : h.file # filename}

\* ------------------------------------------------------------- aggregator
RECURSIVE max(_)
max(s) ==
    IF Len(s) = 1 THEN s[1]
    ELSE LET m == max(Tail(s)) IN IF IntGeq(Head(s), m) THEN Head(s) ELSE m

\* the first length instead of the smallest
min_first(s) == s[1]

RECURSIVE min(_)
min(s) ==
    IF Len(s) = 1 THEN s[1]
    ELSE LET m == min(Tail(s)) IN IF IntGeq(Head(s), m) THEN m ELSE Head(s)

FileSummary(file, lengths) ==
    LET total_reads == Len(lengths)
        total_bases == sum(lengths)
    IN  [file        |-> basename(file),
         n50         |-> calculate_n50(lengths),
         total_reads |-> total_reads,
         total_bases |-> total_bases,
         mean_length |-> IF total_reads > 0
                         THEN TrueDiv(total_bases, total_reads) ELSE FZero,
         max_length  |-> IF lengths # <<>> THEN max(lengths) ELSE PyInt(0),
         min_length  |-> IF lengths # <<>> THEN min(lengths) ELSE PyInt(0)]

\* a row for every file, with reads or without
collect_always(rows, file, lengths) == Append(rows, FileSummary(file, lengths))

\* lines 100-118: a row for a file with reads, a message for one without
collect(rows, file, lengths) ==
    IF lengths # <<>> THEN Append(rows, FileSummary(file, lengths)) ELSE rows

\* a failure that ends the loop
except_break(i) == [pc |-> "write", idx |-> i]

\* lines 119-120: a failure of one file is printed and the loop goes on
except_Exception(i) == [pc |-> "loop", idx |-> i + 1]

\* an empty list that goes on to the loop
no_files_never(files) == FALSE

\* line 89
no_files(files) == files = <<>>

\* a report written whatever was collected
have_results_always(rows) == TRUE

\* line 123
have_results(rows) == rows # <<>>

fieldnames == <<"file", "n50", "total_reads", "total_bases", "mean_length",
                "max_length", "min_length">>

\* ------------------------------------------------------- the environment
Root == <<"d">>
Sub  == <<"d", "/", "s">>

\* the entries a directory listing is drawn from
Entries == { <<Root, <<"a", ".", "f", "q">> >>,
             <<Sub,  <<"b", ".", "f", "q", ".", "g", "z">> >>,
             <<Root, <<"c", ".", "t", "x", "t">> >>,
             <<Sub,  <<"a", ".", "f", "q">> >> }

\* listings: every entry at most once
Walks == UNION { { w \in [1..n -> Entries] :
                     \A i, j \in 1..n : i # j => w[i] # w[j] } : n \in 0..MaxFiles }

\* values of --file: an empty string, a FASTQ path, a path of another kind
FileArgs == { <<>>, <<"a", ".", "f", "q">>, <<"x", ".", "g", "z">> }

\* read lengths of the records of a whole run
RunLens == { PyInt(3) }

\* ------------------------------------------------------------------- main
Init ==
    /\ pc = "main"
    /\ \/ /\ args \in {[file |-> f, directory |-> None] : f \in FileArgs}
          /\ walk = <<>>
       \/ /\ args = [file |-> None, directory |-> Root]
          /\ walk \in Walks
    /\ files_to_process = <<>>
    /\ idx = 0
    /\ handles = {}
    /\ read_lengths = <<>>
    /\ n50 = PyInt(0)
    /\ results = <<>>
    /\ csv \in {<<"absent">>, <<"old">>}
    /\ stdout = <<>>
    /\ fate = <<>>

\* lines 82-94
Proceed(files) ==
    /\ files_to_process' = files
    /\ IF no_files(files)
       THEN /\ stdout' = Append(stdout, <<"No FASTQ files found to process.">>)
            /\ pc' = "done"
            /\ idx' = idx
       ELSE /\ stdout' = stdout
            /\ pc' = "loop"
            /\ idx' = 1
    /\ results' = <<>>

CollectFiles ==
    /\ pc = "main"
    /\ IF Truthy(args.file) THEN Proceed(<<args.file>>)
       ELSE IF args.directory = None
            \* os.walk(None) raises TypeError, which nothing catches
            THEN /\ pc' = "crashed"
                 /\ UNCHANGED <<files_to_process, stdout, idx, results>>
            ELSE Proceed(get_fastq_files(walk))
    /\ UNCHANGED <<args, walk, handles, read_lengths, n50, csv, fate>>

\* lines 95-96: the next file of the list, or the end of the loop
LoopHead ==
    /\ pc = "loop"
    /\ IF idx <= Len(files_to_process)
       THEN /\ stdout' = Append(stdout, <<"Processing", files_to_process[idx]>>)
            /\ pc' = "open"
       ELSE /\ stdout' = stdout
            /\ pc' = "write"
    /\ UNCHANGED <<args, walk, files_to_process, idx, handles, read_lengths,
                   n50, results, csv, fate>>

\* lines 119-120, after a failure of the current file
Caught(stage, reads) ==
    LET file == files_to_process[idx]
        go   == except_Exception(idx)
    IN  /\ stdout' = Append(stdout, <<"Error processing", file>>)
        /\ fate' = Append(fate, [file |-> file, ok |-> FALSE, at |-> stage,
                                 reads |-> reads])
        /\ pc' = go.pc
        /\ idx' = go.idx

\* lines 61-72: open() or gzip.open() succeeds
OpenStream ==
    /\ pc = "open"
    /\ read_lengths' = <<>>
    /\ handles' = handles \cup {open_stream(files_to_process[idx])}
    /\ pc' = "parse"
    /\ UNCHANGED <<args, walk, files_to_process, idx, n50, results, csv,
                   stdout, fate>>

\* lines 61-72: open() or gzip.open() raises
OpenFails ==
    /\ pc = "open"
    /\ read_lengths' = <<>>
    /\ Caught("open", <<>>)
    /\ UNCHANGED <<args, walk, files_to_process, handles, n50, results, csv>>

\* lines 69-70, 73-74: the parser yields one more record
ParseRecord ==
    /\ pc = "parse"
    /\ Len(read_lengths) < MaxRecs
    /\ \E l \in RunLens : read_lengths' = Append(read_lengths, l)
    /\ UNCHANGED <<pc, args, walk, files_to_process, idx, handles, n50,
                   results, csv, stdout, fate>>

\* lines 69, 73: the parser (or the decompressor under it) raises
ParseFails ==
    /\ pc = "parse"
    /\ handles' = with_exit(handles, files_to_process[idx])
    /\ Caught("parse", read_lengths)
    /\ UNCHANGED <<args, walk, files_to_process, read_lengths, n50, results,
                   csv>>

\* lines 69-76, 98-118: end of the stream; the lengths are returned and
\* aggregated
ParseEnds ==
    LET file == files_to_process[idx] IN
    /\ pc = "parse"
    /\ handles' = with_exit(handles, file)
    /\ results' = collect(results, file, read_lengths)
    /\ n50' = IF read_lengths # <<>> THEN calculate_n50(read_lengths) ELSE n50
    /\ stdout' = IF read_lengths # <<>> THEN stdout
                 ELSE Append(stdout, <<"No reads found in", file>>)
    /\ fate' = Append(fate, [file |-> file, ok |-> TRUE, at |-> "end",
                             reads |-> read_lengths])
    /\ idx' = idx + 1
    /\ pc' = "loop"
    /\ UNCHANGED <<args, walk, files_to_process, read_lengths, csv>>

\* lines 122-134
WriteResults ==
    /\ pc = "write"
    /\ IF have_results(results)
       THEN /\ csv' = <<"written", fieldnames, results>>
            /\ stdout' = Append(stdout, <<"Results written">>)
       ELSE /\ csv' = csv
            /\ stdout' = Append(stdout, <<"No results to write.">>)
    /\ pc' = "done"
    /\ UNCHANGED <<args, walk, files_to_process, idx, handles, read_lengths,
                   n50, results, fate>>

Next ==
    \/ CollectFiles
    \/ LoopHead
    \/ OpenStream
    \/ OpenFails
    \/ ParseRecord
    \/ ParseFails
    \/ ParseEnds
    \/ WriteResults

Spec == Init /\ [][Next]_vars

\* one thread runs the program: a step that can be taken is taken
FairSpec == Spec /\ WF_vars(Next)

\* ------------------------------------------------- calculate_n50 on its own
\* lengths of a series handed to calculate_n50: small ones, and ones around
\* 2^51 whose totals pass 2^53
N50Lens == { PyInt(0), PyInt(1), PyInt(2), PyInt(3), <<1, 0>>, <<1, 1>>, <<2, 0>> }

InitN50 ==
    /\ pc = "n50_input"
    /\ args = [file |-> None, directory |-> None]
    /\ walk = <<>>
    /\ files_to_process = <<>>
    /\ idx = 0
    /\ handles = {}
    /\ read_lengths = <<>>
    /\ n50 = PyInt(0)
    /\ results = <<>>
    /\ csv = <<"absent">>
    /\ stdout = <<>>
    /\ fate = <<>>

N50Read ==
    /\ pc = "n50_input"
    /\ Len(read_lengths) < MaxN50Reads
    /\ \E l \in N50Lens : read_lengths' = Append(read_lengths, l)
    /\ UNCHANGED <<pc, args, walk, files_to_process, idx, handles, n50,
                   results, csv, stdout, fate>>

N50Call ==
    /\ pc = "n50_input"
    /\ n50' = calculate_n50(read_lengths)
    /\ pc' = "n50_done"
    /\ UNCHANGED <<args, walk, files_to_process, idx, handles, read_lengths,
                   results, csv, stdout, fate>>

NextN50 == N50Read \/ N50Call

SpecN50 == InitN50 /\ [][NextN50]_vars

\* ------------------------------------------------ the aggregator on its own
AggLens == { PyInt(2), PyInt(4), PyInt(5), PyInt(6) }

InitSummary ==
    /\ pc = "agg_input"
    /\ args = [file |-> <<"a", ".", "f", "q">>, directory |-> None]
    /\ walk = <<>>
    /\ files_to_process = <<args.file>>
    /\ idx = 1
    /\ handles = {}
    /\ read_lengths = <<>>
    /\ n50 = PyInt(0)
    /\ results = <<>>
    /\ csv = <<"absent">>
    /\ stdout = <<>>
    /\ fate = <<>>

AggRead ==
    /\ pc = "agg_input"
    /\ Len(read_lengths) < MaxReads
    /\ \E l \in AggLens : read_lengths' = Append(read_lengths, l)
    /\ UNCHANGED <<pc, args, walk, files_to_process, idx, handles, n50,
                   results, csv, stdout, fate>>

\* lines 100-118
Aggregate ==
    /\ pc = "agg_input"
    /\ results' = collect(results, files_to_process[idx], read_lengths)
    /\ pc' = "agg_done"
    /\ UNCHANGED <<args, walk, files_to_process, idx, handles, read_lengths,
                   n50, csv, stdout, fate>>

NextSummary == AggRead \/ Aggregate

SpecSummary == InitSummary /\ [][NextSummary]_vars

\* ------------------------------------- the two extension tests on one name
ExtChars == {".", "f", "q", "g", "z", "G"}

InitExt ==
    /\ pc = "ext_input"
    /\ args = [file |-> None, directory |-> Root]
    /\ walk = << <<Root, <<>> >> >>
    /\ files_to_process = <<>>
    /\ idx = 0
    /\ handles = {}
    /\ read_lengths = <<>>
    /\ n50 = PyInt(0)
    /\ results = <<>>
    /\ csv = <<"absent">>
    /\ stdout = <<>>
    /\ fate = <<>>

\* one more character of the name of the only file of the directory
ExtType ==
    /\ pc = "ext_input"
    /\ Len(walk[1][2]) < MaxNameLen
    /\ \E c \in ExtChars : walk' = << <<Root, Append(walk[1][2], c)>> >>
    /\ UNCHANGED <<pc, args, files_to_process, idx, handles, read_lengths,
                   n50, results, csv, stdout, fate>>

\* line 87
ExtLocate ==
    /\ pc = "ext_input"
    /\ files_to_process' = get_fastq_files(walk)
    /\ pc' = "ext_located"
    /\ UNCHANGED <<args, walk, idx, handles, read_lengths, n50, results, csv,
                   stdout, fate>>

\* lines 63-72, for the file the locator accepted
ExtOpen ==
    /\ pc = "ext_located"
    /\ files_to_process # <<>>
    /\ idx' = 1
    /\ handles' = {open_stream(files_to_process[1])}
    /\ pc' = "ext_opened"
    /\ UNCHANGED <<args, walk, files_to_process, read_lengths, n50, results,
                   csv, stdout, fate>>

NextExt == ExtType \/ ExtLocate \/ ExtOpen

SpecExt == InitExt /\ [][NextExt]_vars

\* ================================================================== claims
IntTwice(a) == IntAdd(a, a)

Untouched == csv \in {<<"absent">>, <<"old">>}

Count(log, m) == Cardinality({i \in 1..Len(log) : log[i] = m})

IsPrefix(s, t) == Len(s) <= Len(t) /\ SubSeq(t, 1, Len(s)) = s

\* the files named by the "Processing" messages, in the order printed
RECURSIVE ProcessingLog(_)
ProcessingLog(log) ==
    IF log = <<>> THEN <<>>
    ELSE (IF Head(log)[1] = "Processing" THEN <<Head(log)[2]>> ELSE <<>>)
         \o ProcessingLog(Tail(log))

\* the history entries of the files read without error that had reads
RECURSIVE Summarised(_)
Summarised(h) ==
    IF h = <<>> THEN <<>>
    ELSE (IF Head(h).ok /\ Head(h).reads # <<>> THEN <<Head(h)>> ELSE <<>>)
         \o Summarised(Tail(h))

\* ---- C1
\* the length at the first position of the descending series where twice the
\* running sum reaches the total, in exact integer arithmetic
RECURSIVE FirstHalfPos(_, _, _, _)
FirstHalfPos(S, total, k, running) ==
    IF k > Len(S) THEN PyInt(0)
    ELSE LET r == IntAdd(running, S[k])
         IN  IF IntGeq(IntTwice(r), total) THEN S[k]
             ELSE FirstHalfPos(S, total, k + 1, r)

\* C1: calculate_n50(L) is 0 for the empty series and otherwise the length at
\* the first position of L sorted in descending order at which twice the
\* running sum is at least the total (the threshold is exactly total/2).
C1_ExactHalfTotal ==
    pc = "n50_done" =>
        n50 = IF read_lengths = <<>> THEN PyInt(0)
              ELSE FirstHalfPos(sorted_desc(read_lengths), sum(read_lengths),
                                1, PyInt(0))

\* ---- C2
PermutationsOf(s) ==
    { [i \in 1..Len(s) |-> s[f[i]]] : f \in Permutations(1..Len(s)) }

\* C2: for a non-empty series L and every permutation P of L,
\* calculate_n50(P) = calculate_n50(L).
C2_OrderIndependent ==
    (pc = "n50_done" /\ read_lengths # <<>>) =>
        \A P \in PermutationsOf(read_lengths) : calculate_n50(P) = n50

\* a series that is neither ascending nor descending, with a large length in it
C2_Witness ==
    /\ pc = "n50_done"
    /\ Len(read_lengths) >= 3
    /\ ~IntGeq(read_lengths[1], read_lengths[2])
    /\ ~IntGeq(read_lengths[3], read_lengths[2])
    /\ read_lengths[1] # read_lengths[3]
    /\ n50 # read_lengths[1]

\* ---- C3
AtLeast(s, n) == SelectSeq(s, LAMBDA x : IntGeq(x, n))

\* C3: for a non-empty series L and n = calculate_n50(L), the reads of length
\* >= n hold at least half of the bases: 2 * sum{x in L : x >= n} >= sum(L).
C3_HalfOfBases ==
    (pc = "n50_done" /\ read_lengths # <<>>) =>
        IntGeq(IntTwice(sum(AtLeast(read_lengths, n50))), sum(read_lengths))

\* ---- C4
C4_InOrderOnce ==
    /\ IsPrefix(ProcessingLog(stdout), files_to_process)
    /\ pc \in {"write", "done"} /\ files_to_process # <<>> =>
           /\ ProcessingLog(stdout) = files_to_process
           /\ Len(fate) = Len(files_to_process)
           /\ \A i \in 1..Len(fate) : fate[i].file = files_to_process[i]
    /\ \A i \in 1..Len(fate) :
           ~fate[i].ok => Count(stdout, <<"Error processing", fate[i].file>>) = 1

C4_Reported ==
    /\ pc = "done"
    /\ stdout[Len(stdout)] \in {<<"Results written">>, <<"No results to write.">>}

\* C4: with a non-empty list of candidate files, each file is processed exactly
\* once, in list order; a failure to open, decompress or parse a file is
\* caught and printed for that file only, the later files are still processed
\* and the run always reaches the final report.
C4_FailuresIsolated ==
    /\ []C4_InOrderOnce
    /\ (pc = "loop") ~> C4_Reported

\* a run in which the first file failed, a later one was read, and the report
\* was reached
C4_Witness ==
    /\ pc = "done"
    /\ Len(fate) >= 3
    /\ ~fate[1].ok /\ fate[1].at = "open"
    /\ ~fate[2].ok /\ fate[2].at = "parse"
    /\ fate[3].ok /\ fate[3].reads # <<>>

\* ---- C5
C5_Rows ==
    LET good == Summarised(fate) IN
    /\ \A i \in 1..Len(fate) : fate[i].file = files_to_process[i]
    /\ Len(results) = Len(good)
    /\ \A k \in 1..Len(results) :
           /\ results[k].file = basename(good[k].file)
           /\ results[k].total_reads = Len(good[k].reads)
           /\ results[k].total_bases = sum(good[k].reads)
           /\ results[k].total_reads > 0

\* C5: results holds exactly one row for each candidate file that was read
\* without error and had at least one read, in the order of the files, and
\* none for a file that failed or had no reads; results only grows by
\* appending and never holds a row with total_reads = 0.
C5_ReportTable ==
    /\ []C5_Rows
    /\ [][IsPrefix(results, results')]_vars

\* the loop has ended with a failed file, an empty file and two rows
C5_Witness ==
    /\ pc = "write"
    /\ Len(fate) >= 3
    /\ \E i \in 1..Len(fate) : ~fate[i].ok /\ fate[i].reads # <<>>
    /\ \E i \in 1..Len(fate) : fate[i].ok /\ fate[i].reads = <<>>
    /\ Len(results) >= 1
    /\ Len(results) < Len(fate)

\* ---- C6
\* C6: the output file is written if and only if at least one summary was
\* produced; when every candidate file was skipped or failed the empty result
\* set is reported once and the output file is neither created nor overwritten.
C6_WrittenIffResults ==
    /\ pc # "done" => Untouched
    /\ pc = "done" =>
           /\ ~Untouched <=> Summarised(fate) # <<>>
           /\ ~Untouched => Len(csv[3]) = Len(Summarised(fate))
           /\ (files_to_process # <<>> /\ Summarised(fate) = <<>>) =>
                  Count(stdout, <<"No results to write.">>) = 1

\* every candidate failed or was empty and an existing output file was left
C6_Witness ==
    /\ pc = "done"
    /\ csv = <<"old">>
    /\ Len(fate) >= 2
    /\ \E i \in 1..Len(fate) : ~fate[i].ok
    /\ \E i \in 1..Len(fate) : fate[i].ok /\ fate[i].reads = <<>>

\* ---- C7
NoFastqListed == \A i \in 1..Len(walk) : ~is_fastq_file(walk[i][2])

\* --file named a file that could not be opened
MissingFile ==
    /\ Truthy(args.file)
    /\ fate = <<[file |-> args.file, ok |-> FALSE, at |-> "open", reads |-> <<>>]>>

\* C7 as stated: with no files to process, by an empty candidate list from
\* discovery or by --file naming a single nonexistent file, the no-files-found
\* condition is reported once and the run ends with no output file written.
C7_NoFilesReported ==
    (pc = "done" /\ ((args.directory # None /\ NoFastqListed) \/ MissingFile)) =>
        /\ Count(stdout, <<"No FASTQ files found to process.">>) = 1
        /\ Untouched

\* C7 amended: an empty candidate list from discovery is reported once as
\* no-files-found; a nonexistent --file is processed as a candidate, its
\* failure is printed as that file's error and the empty result set is
\* reported once; in both cases no output file is written.
C7_NoFilesOrNoResults ==
    pc = "done" =>
        /\ (args.directory # None /\ NoFastqListed) =>
               /\ stdout = << <<"No FASTQ files found to process.">> >>
               /\ Untouched
        /\ MissingFile =>
               /\ stdout = << <<"Processing", args.file>>,
                              <<"Error processing", args.file>>,
                              <<"No results to write.">> >>
               /\ Untouched

C7_Witness ==
    /\ pc = "done"
    /\ MissingFile
    /\ csv = <<"old">>

\* ---- C8
\* bit string - 1 (the bit string is not all zeros)
DecBits(b) ==
    LET k == CHOOSE j \in 1..Len(b) :
                 b[j] = 1 /\ \A m \in (j + 1)..Len(b) : b[m] = 0
    IN  [j \in 1..Len(b) |-> IF j < k THEN b[j] ELSE IF j = k THEN 0 ELSE 1]

\* the float m is within half a unit in its last place of a / b:
\* (2 sig - 1) * b * 2^(exp - 1) <= a <= (2 sig + 1) * b * 2^(exp - 1)
NearestTo(m, a, b) ==
    IF m.sig = <<>> THEN a = PyInt(0)
    ELSE LET above == [sig |-> TimesNat(m.sig \o <<1>>, b), exp |-> m.exp - 1]
             below == [sig |-> TimesNat(DecBits(m.sig \o <<0>>), b),
                       exp |-> m.exp - 1]
         IN  /\ CmpIntFloat(a, above) <= 0
             /\ CmpIntFloat(a, below) >= 0

C8_Fields(r, S) ==
    /\ r.total_reads = Len(S)
    /\ r.total_bases = sum(S)
    /\ \E i \in 1..Len(S) : r.max_length = S[i]
    /\ \A i \in 1..Len(S) : IntGeq(r.max_length, S[i])
    /\ \E i \in 1..Len(S) : r.min_length = S[i]
    /\ \A i \in 1..Len(S) : IntGeq(S[i], r.min_length)
    /\ r.n50 = calculate_n50(S)
    /\ S = <<PyInt(2), PyInt(4), PyInt(6)>> =>
           /\ r.total_reads = 3 /\ r.total_bases = PyInt(12)
           /\ r.max_length = PyInt(6) /\ r.min_length = PyInt(2)
           /\ CmpIntFloat(PyInt(4), r.mean_length) = 0

\* C8 as stated: the fields of a summary are the count, sum, maximum, minimum
\* and N50 of the series, and mean_length * total_reads = total_bases.
C8_MeanTimesReads ==
    (pc = "agg_done" /\ results # <<>>) =>
        LET r == results[1] IN
        /\ C8_Fields(r, read_lengths)
        /\ CmpIntFloat(r.total_bases, MulFloatInt(r.mean_length, r.total_reads)) = 0

\* C8 amended: the fields are the count, sum, maximum, minimum and N50 of the
\* series; mean_length is the float nearest to total_bases / total_reads, and
\* mean_length * total_reads = total_bases when total_reads divides
\* total_bases (totals below 2^53).
C8_MeanNearest ==
    (pc = "agg_done" /\ results # <<>>) =>
        LET r == results[1] IN
        /\ C8_Fields(r, read_lengths)
        /\ NearestTo(r.mean_length, r.total_bases, r.total_reads)
        /\ (r.total_bases[1] = 0 /\ r.total_bases[2] % r.total_reads = 0) =>
               /\ CmpIntFloat(PyInt(r.total_bases[2] \div r.total_reads),
                              r.mean_length) = 0
               /\ CmpIntFloat(r.total_bases,
                              MulFloatInt(r.mean_length, r.total_reads)) = 0

\* the series 2, 4, 6 has been summarised
C8_Witness ==
    /\ pc = "agg_done"
    /\ read_lengths = <<PyInt(2), PyInt(4), PyInt(6)>>
    /\ results # <<>>

\* ---- C9
\* C9: a file's stream is opened when its processing starts and closed on
\* every way out of process_fastq, so none is open when the next file starts
\* or when the run ends, and at most one is open at any time.
C9_StreamsScoped ==
    /\ Cardinality(handles) <= 1
    /\ pc = "parse" => handles = {open_stream(files_to_process[idx])}
    /\ pc # "parse" => handles = {}

\* the next file is about to start after a failure in the middle of a stream
C9_Witness ==
    /\ pc = "open"
    /\ fate # <<>>
    /\ ~fate[Len(fate)].ok
    /\ fate[Len(fate)].at = "parse"
    /\ fate[Len(fate)].reads # <<>>
    /\ handles = {}

\* ---- C10
CompressedName(name) ==
    \/ endswith(lower(name), <<".","f","a","s","t","q",".","g","z">>)
    \/ endswith(lower(name), <<".","f","q",".","g","z">>)

\* C10: every file the locator accepts whose name ends, in any case, with
\* .fastq.gz or .fq.gz is opened through decompression, and every other
\* accepted file is opened as text.
C10_TestsAgree ==
    pc = "ext_opened" =>
        \A h \in handles : h.mode = "gzip" <=> CompressedName(basename(h.file))

====
